---- MODULE Spec2Model ----
(***************************************************************************)
(* Model of the `relay-messages` command of the substrate relay binary     *)
(* (bridges/relays/bin-substrate/src/cli/relay_messages.rs).               *)
(*                                                                         *)
(* Text is modelled as a sequence of ASCII codes, so that letter case,     *)
(* kebab-casing and hex decoding are computed rather than assumed.         *)
(* Enumeration values are TLA+ strings carrying the Rust variant name.     *)
(***************************************************************************)
EXTENDS Integers, Sequences, FiniteSets, TLC

VARIABLES
    argv,                           \* the command line handed to from_iter
    pc,                             \* position of the command's single task
    data,                           \* Result of parsing: the RelayMessages record
    impl,                           \* bridge implementation chosen by run
    source_client,                  \* locals of relay_messages (Option)
    source_sign,
    source_transactions_mortality,
    target_client,
    target_sign,
    target_transactions_mortality,
    engine_params,                  \* the MessagesRelayParams given to the engine
    calls,                          \* history: collaborator calls and what they returned
    result                          \* anyhow::Result<()> returned by run

vars == <<argv, pc, data, impl, source_client, source_sign,
          source_transactions_mortality, target_client, target_sign,
          target_transactions_mortality, engine_params, calls, result>>

locals == <<source_client, source_sign, source_transactions_mortality,
            target_client, target_sign, target_transactions_mortality>>

-----------------------------------------------------------------------------
(* Bounds of the model.                                                    *)

\* Input tokens are spelled with their first 0..MaxUpper letters in upper
\* case (and also entirely in upper case).
MaxUpper == 2

\* Number of distinct error message texts a collaborator may produce.
NumErrTexts == 2

-----------------------------------------------------------------------------
(* Option and Result values.                                               *)

None == [tag |-> "None"]
Some(v) == [tag |-> "Some", val |-> v]
Ok(v) == [tag |-> "Ok", val |-> v]
Err(e) == [tag |-> "Err", err |-> e]
Pending == [tag |-> "Pending"]

IsOk(r) == r.tag = "Ok"
IsErr(r) == r.tag = "Err"

-----------------------------------------------------------------------------
(* ASCII text.                                                             *)

IsUpper(c) == c \in 65..90

to_ascii_lowercase(c) == IF IsUpper(c) THEN c + 32 ELSE c

to_ascii_uppercase(c) == IF c \in 97..122 THEN c - 32 ELSE c

\* clap compares a value with a possible value this way when the argument
\* is declared `case_insensitive = true`.
eq_ignore_ascii_case(a, b) ==
    /\ Len(a) = Len(b)
    /\ \A i \in 1..Len(a) : to_ascii_lowercase(a[i]) = to_ascii_lowercase(b[i])

\* strum's `serialize_all = "kebab_case"`: a variant identifier in
\* UpperCamelCase is split before every upper-case letter but the first,
\* lower-cased and joined with '-' (code 45).
RECURSIVE KebabFrom(_, _)
KebabFrom(ident, i) ==
    IF i > Len(ident) THEN <<>>
    ELSE (IF i > 1 /\ IsUpper(ident[i])
             THEN <<45, to_ascii_lowercase(ident[i])>>
             ELSE <<to_ascii_lowercase(ident[i])>>) \o KebabFrom(ident, i + 1)

KebabCase(ident) == KebabFrom(ident, 1)

-----------------------------------------------------------------------------
(* RelayerMode: the command's enumeration and its derived parser.          *)

RelayerMode == {"Altruistic", "Rational"}

\* The variant identifiers as written in the enum declaration.
RelayerModeIdent ==
    [Altruistic |-> <<65, 108, 116, 114, 117, 105, 115, 116, 105, 99>>,
     Rational   |-> <<82, 97, 116, 105, 111, 110, 97, 108>>]

\* EnumVariantNames: RelayerMode::VARIANTS
RelayerModeVARIANTS == {KebabCase(RelayerModeIdent[v]) : v \in RelayerMode}

\* EnumString: <RelayerMode as FromStr>::from_str. The derive carries no
\* `ascii_case_insensitive` attribute: a variant matches on its serialized
\* name exactly.
RelayerModeFromStr(s) ==
    IF \E v \in RelayerMode : KebabCase(RelayerModeIdent[v]) = s
    THEN Ok(CHOOSE v \in RelayerMode : KebabCase(RelayerModeIdent[v]) = s)
    ELSE Err("VariantNotFound")

\* impl From<RelayerMode> for messages_relay::message_lane_loop::RelayerMode
LoopRelayerMode == {"loop::Altruistic", "loop::Rational"}

RelayerModeIntoAllRational(mode) == "loop::Rational"

RelayerModeInto(mode) ==
    CASE mode = "Altruistic" -> "loop::Altruistic"
      [] mode = "Rational"   -> "loop::Rational"

-----------------------------------------------------------------------------
(* FullBridge and HexLaneId: declared in crate::cli, used by this command. *)

FullBridge == {"MillauToRialto", "RialtoToMillau",
               "MillauToRialtoParachain", "RialtoParachainToMillau"}

FullBridgeIdent ==
    [MillauToRialto |->
        <<77, 105, 108, 108, 97, 117, 84, 111, 82, 105, 97, 108, 116, 111>>,
     RialtoToMillau |->
        <<82, 105, 97, 108, 116, 111, 84, 111, 77, 105, 108, 108, 97, 117>>,
     MillauToRialtoParachain |->
        <<77, 105, 108, 108, 97, 117, 84, 111, 82, 105, 97, 108, 116, 111,
          80, 97, 114, 97, 99, 104, 97, 105, 110>>,
     RialtoParachainToMillau |->
        <<82, 105, 97, 108, 116, 111, 80, 97, 114, 97, 99, 104, 97, 105, 110,
          84, 111, 77, 105, 108, 108, 97, 117>>]

\* FullBridge::VARIANTS: the compiled bridge-pair names.
FullBridgeVARIANTS == {KebabCase(FullBridgeIdent[v]) : v \in FullBridge}

\* <FullBridge as FromStr>::from_str: one of the compiled names,
\* case-insensitive.
FullBridgeFromStr(s) ==
    IF \E v \in FullBridge : eq_ignore_ascii_case(KebabCase(FullBridgeIdent[v]), s)
    THEN Ok(CHOOSE v \in FullBridge :
                eq_ignore_ascii_case(KebabCase(FullBridgeIdent[v]), s))
    ELSE Err("VariantNotFound")

\* Width of a lane id in bytes.
LaneWidth == 4

IsHexDigit(c) == c \in (48..57) \cup (97..102) \cup (65..70)

HexVal(c) ==
    CASE c \in 48..57  -> c - 48
      [] c \in 97..102 -> c - 87
      [] c \in 65..70  -> c - 55

\* <HexLaneId as FromStr>::from_str: hex-decodes into a fixed-width id.
HexLaneIdFromStr(s) ==
    IF Len(s) # 2 * LaneWidth THEN Err("InvalidStringLength")
    ELSE IF \E i \in 1..Len(s) : ~IsHexDigit(s[i]) THEN Err("InvalidHexCharacter")
    ELSE Ok([HexLaneId |->
                [i \in 1..LaneWidth |-> 16 * HexVal(s[2 * i - 1]) + HexVal(s[2 * i])]])

\* From<HexLaneId> for LaneId: takes the id out of its wrapper.
HexLaneIdInto(lane) == lane.HexLaneId

-----------------------------------------------------------------------------
(* The command line and its parsing (derive(StructOpt) on RelayMessages).  *)

\* default_value of --lane: "00000000"
DefaultLaneToken == <<48, 48, 48, 48, 48, 48, 48, 48>>

DefaultRelayerModeTokenAltruistic ==
    <<97, 108, 116, 114, 117, 105, 115, 116, 105, 99>>

\* default_value of --relayer-mode: "rational"
DefaultRelayerModeToken == <<114, 97, 116, 105, 111, 110, 97, 108>>

\* The bridge argument: possible_values = FullBridge::VARIANTS,
\* case_insensitive = true, then the type's from_str as validator.
ParseBridge(tok) ==
    IF ~\E pv \in FullBridgeVARIANTS : eq_ignore_ascii_case(pv, tok)
    THEN Err("InvalidValue")
    ELSE IF IsErr(FullBridgeFromStr(tok)) THEN Err("ValueValidation")
    ELSE FullBridgeFromStr(tok)

\* --lane: no possible values, the type's from_str as validator.
ParseLane(arg) ==
    LET tok == IF arg.tag = "Some" THEN arg.val ELSE DefaultLaneToken
    IN  IF IsErr(HexLaneIdFromStr(tok)) THEN Err("ValueValidation")
        ELSE HexLaneIdFromStr(tok)

ParseRelayerModeLenient(arg) ==
    LET tok == IF arg.tag = "Some" THEN arg.val ELSE DefaultRelayerModeToken
    IN  IF IsErr(RelayerModeFromStr(tok))
        THEN RelayerModeFromStr(DefaultRelayerModeToken)
        ELSE RelayerModeFromStr(tok)

\* --relayer-mode: possible_values = RelayerMode::VARIANTS,
\* case_insensitive = true, default_value = "rational", then the type's
\* from_str as validator.
ParseRelayerMode(arg) ==
    LET tok == IF arg.tag = "Some" THEN arg.val ELSE DefaultRelayerModeToken
    IN  IF ~\E pv \in RelayerModeVARIANTS : eq_ignore_ascii_case(pv, tok)
        THEN Err("InvalidValue")
        ELSE IF IsErr(RelayerModeFromStr(tok)) THEN Err("ValueValidation")
        ELSE RelayerModeFromStr(tok)

\* The flattened sub-records; their flags are fixed in this model.
SourceConnectionParams == [side |-> "source", of |-> "connection"]
SourceSigningParams == [side |-> "source", of |-> "signing"]
TargetConnectionParams == [side |-> "target", of |-> "connection"]
TargetSigningParams == [side |-> "target", of |-> "signing"]
PrometheusParams == [of |-> "prometheus"]

\* RelayMessages::from_iter: every argument must parse; the first one that
\* does not gives the error.
FromIter(args) ==
    LET b == ParseBridge(args.bridge)
        l == ParseLane(args.lane)
        m == ParseRelayerMode(args.relayer_mode)
    IN  IF IsErr(b) THEN Err([arg |-> "bridge", kind |-> b.err])
        ELSE IF IsErr(l) THEN Err([arg |-> "lane", kind |-> l.err])
        ELSE IF IsErr(m) THEN Err([arg |-> "relayer-mode", kind |-> m.err])
        ELSE Ok([bridge |-> b.val,
                 lane |-> l.val,
                 relayer_mode |-> m.val,
                 source |-> SourceConnectionParams,
                 source_sign |-> SourceSigningParams,
                 target |-> TargetConnectionParams,
                 target_sign |-> TargetSigningParams,
                 prometheus_params |-> PrometheusParams])

\* The command lines of the model: every compiled name in several
\* spellings, a name that is not compiled in, and each option given or not.
UpperPrefix(s, k) ==
    [i \in 1..Len(s) |-> IF i <= k THEN to_ascii_uppercase(s[i]) ELSE s[i]]

Spellings(s) == {UpperPrefix(s, k) : k \in (0..MaxUpper) \cup {Len(s)}}

\* "rialto-to-kusama"
UnknownBridgeToken ==
    <<114, 105, 97, 108, 116, 111, 45, 116, 111, 45, 107, 117, 115, 97, 109, 97>>

\* "greedy"
UnknownModeToken == <<103, 114, 101, 101, 100, 121>>

BridgeTokens ==
    UNION {Spellings(n) : n \in FullBridgeVARIANTS} \cup {UnknownBridgeToken}

ModeArgs ==
    {None} \cup {Some(t) : t \in UNION {Spellings(n) : n \in RelayerModeVARIANTS}
                                    \cup {UnknownModeToken}}

\* absent, "00000000", "0000002A", "0000"
LaneArgs ==
    {None,
     Some(<<48, 48, 48, 48, 48, 48, 48, 48>>),
     Some(<<48, 48, 48, 48, 48, 48, 50, 65>>),
     Some(<<48, 48, 48, 48>>)}

CommandLines == [bridge : BridgeTokens, lane : LaneArgs, relayer_mode : ModeArgs]

-----------------------------------------------------------------------------
(* The bridge implementations and the collaborators.                       *)

\* impl MessagesRelayer for ...
MessagesRelayerImpls ==
    {"MillauToRialtoCliBridge", "RialtoToMillauCliBridge",
     "MillauToRialtoParachainCliBridge", "RialtoParachainToMillauCliBridge"}

\* The chains of each implementation (MessagesCliBridge::Source / ::Target).
SourceChain(bridge_impl) ==
    CASE bridge_impl = "MillauToRialtoCliBridge" -> "Millau"
      [] bridge_impl = "RialtoToMillauCliBridge" -> "Rialto"
      [] bridge_impl = "MillauToRialtoParachainCliBridge" -> "Millau"
      [] bridge_impl = "RialtoParachainToMillauCliBridge" -> "RialtoParachain"

TargetChain(bridge_impl) ==
    CASE bridge_impl = "MillauToRialtoCliBridge" -> "Rialto"
      [] bridge_impl = "RialtoToMillauCliBridge" -> "Millau"
      [] bridge_impl = "MillauToRialtoParachainCliBridge" -> "RialtoParachain"
      [] bridge_impl = "RialtoParachainToMillauCliBridge" -> "Millau"

DispatchCopyPaste(bridge) ==
    CASE bridge = "MillauToRialto" -> "MillauToRialtoCliBridge"
      [] bridge = "RialtoToMillau" -> "RialtoToMillauCliBridge"
      [] bridge = "MillauToRialtoParachain" -> "MillauToRialtoCliBridge"
      [] bridge = "RialtoParachainToMillau" -> "RialtoParachainToMillauCliBridge"

\* The match of RelayMessages::run.
Dispatch(bridge) ==
    CASE bridge = "MillauToRialto" -> "MillauToRialtoCliBridge"
      [] bridge = "RialtoToMillau" -> "RialtoToMillauCliBridge"
      [] bridge = "MillauToRialtoParachain" -> "MillauToRialtoParachainCliBridge"
      [] bridge = "RialtoParachainToMillau" -> "RialtoParachainToMillauCliBridge"

ErrTexts == 1..NumErrTexts

\* What a collaborator may answer. A value remembers the chain and the
\* parameters it was made from; an error has a kind, an origin and a text.
ToClientResults(chain, params) ==
    {Ok([chain |-> chain, params |-> params])}
    \cup {Err([kind |-> "connection", from |-> params, text |-> t]) : t \in ErrTexts}

ToKeypairResults(chain, params) ==
    {Ok([chain |-> chain, params |-> params])}
    \cup {Err([kind |-> "signing", from |-> params, text |-> t]) : t \in ErrTexts}

TransactionsMortalityResults(params) ==
    {Ok([params |-> params, period |-> p]) : p \in {"None", "Some"}}
    \cup {Err([kind |-> "mortality", from |-> params, text |-> t]) : t \in ErrTexts}

EngineResults ==
    {Ok("()")} \cup {Err([kind |-> "relay-loop", text |-> t]) : t \in ErrTexts}

-----------------------------------------------------------------------------
(* relay_messages.                                                         *)

SetupOrderInterleaved ==
    <<"source_client", "source_sign", "target_client", "source_mortality",
      "target_sign", "target_mortality", "engine">>

\* The statements of relay_messages in program order.
SetupOrder ==
    <<"source_client", "source_sign", "source_mortality",
      "target_client", "target_sign", "target_mortality", "engine">>

NextStep(here) ==
    SetupOrder[(CHOOSE i \in 1..Len(SetupOrder) : SetupOrder[i] = here) + 1]

FromResidualOpaque(r) == Err([kind |-> "setup"])

\* `?` on an Err: the error is converted into anyhow::Error and returned.
FromResidual(r) == Err(r.err)

\* `?`: return the error, or go on with the next statement.
Try(r, here) ==
    IF IsErr(r)
    THEN pc' = "done" /\ result' = FromResidual(r)
    ELSE pc' = NextStep(here) /\ UNCHANGED result

\* MixStrategy::new(relayer_mode)
MixStrategyNew(relayer_mode) == [strategy |-> "MixStrategy", relayer_mode |-> relayer_mode]

TransactionParams(signer, mortality) == [signer |-> signer, mortality |-> mortality]

MessagesRelayParamsCrossed(d, sc, ss, sm, tc, ts, tm) ==
    [lane |-> "MessagesLane",
     source_client |-> sc,
     source_transaction_params |-> TransactionParams(ss, tm),
     target_client |-> tc,
     target_transaction_params |-> TransactionParams(ts, sm),
     source_to_target_headers_relay |-> None,
     target_to_source_headers_relay |-> None,
     lane_id |-> HexLaneIdInto(d.lane),
     metrics_params |-> [from |-> d.prometheus_params],
     standalone_metrics |-> None,
     relay_strategy |-> MixStrategyNew(RelayerModeInto(d.relayer_mode))]

\* The MessagesRelayParams literal built from the command and the locals.
MessagesRelayParams(d, sc, ss, sm, tc, ts, tm) ==
    [lane |-> "MessagesLane",
     source_client |-> sc,
     source_transaction_params |-> TransactionParams(ss, sm),
     target_client |-> tc,
     target_transaction_params |-> TransactionParams(ts, tm),
     source_to_target_headers_relay |-> None,
     target_to_source_headers_relay |-> None,
     lane_id |-> HexLaneIdInto(d.lane),
     metrics_params |-> [from |-> d.prometheus_params],
     standalone_metrics |-> None,
     relay_strategy |-> MixStrategyNew(RelayerModeInto(d.relayer_mode))]

FormatErrLost(e) == [kind |-> "anyhow", text |-> 0]

\* anyhow::format_err!("{}", e): a new error whose message is e's text.
FormatErr(e) == [kind |-> "anyhow", text |-> e.text]

\* .map_err(|e| anyhow::format_err!("{}", e))
MapErr(r) == IF IsErr(r) THEN Err(FormatErr(r.err)) ELSE r

-----------------------------------------------------------------------------
(* The state machine.                                                      *)

Init ==
    /\ argv \in CommandLines
    /\ pc = "parse"
    /\ data = None
    /\ impl = None
    /\ source_client = None
    /\ source_sign = None
    /\ source_transactions_mortality = None
    /\ target_client = None
    /\ target_sign = None
    /\ target_transactions_mortality = None
    /\ engine_params = None
    /\ calls = <<>>
    /\ result = Pending

\* RelayMessages::from_iter(argv); a parse failure ends the process.
Parse ==
    /\ pc = "parse"
    /\ data' = FromIter(argv)
    /\ pc' = IF IsOk(FromIter(argv)) THEN "run" ELSE "exit"
    /\ UNCHANGED <<argv, impl, locals, engine_params, calls, result>>

\* RelayMessages::run: select the implementation and enter relay_messages.
Run ==
    /\ pc = "run"
    /\ impl' = Some(Dispatch(data.val.bridge))
    /\ pc' = SetupOrder[1]
    /\ UNCHANGED <<argv, data, locals, engine_params, calls, result>>

\* let source_client = data.source.to_client::<Self::Source>().await?;
SourceToClient ==
    /\ pc = "source_client"
    /\ \E r \in ToClientResults(SourceChain(impl.val), data.val.source) :
        /\ calls' = Append(calls, [op |-> "source.to_client", ret |-> r])
        /\ source_client' = IF IsOk(r) THEN Some(r.val) ELSE source_client
        /\ Try(r, "source_client")
    /\ UNCHANGED <<argv, data, impl, source_sign, source_transactions_mortality,
                   target_client, target_sign, target_transactions_mortality,
                   engine_params>>

\* let source_sign = data.source_sign.to_keypair::<Self::Source>()?;
SourceToKeypair ==
    /\ pc = "source_sign"
    /\ \E r \in ToKeypairResults(SourceChain(impl.val), data.val.source_sign) :
        /\ calls' = Append(calls, [op |-> "source_sign.to_keypair", ret |-> r])
        /\ source_sign' = IF IsOk(r) THEN Some(r.val) ELSE source_sign
        /\ Try(r, "source_sign")
    /\ UNCHANGED <<argv, data, impl, source_client, source_transactions_mortality,
                   target_client, target_sign, target_transactions_mortality,
                   engine_params>>

\* let source_transactions_mortality = data.source_sign.transactions_mortality()?;
SourceTransactionsMortality ==
    /\ pc = "source_mortality"
    /\ \E r \in TransactionsMortalityResults(data.val.source_sign) :
        /\ calls' = Append(calls, [op |-> "source_sign.transactions_mortality", ret |-> r])
        /\ source_transactions_mortality' =
              IF IsOk(r) THEN Some(r.val) ELSE source_transactions_mortality
        /\ Try(r, "source_mortality")
    /\ UNCHANGED <<argv, data, impl, source_client, source_sign,
                   target_client, target_sign, target_transactions_mortality,
                   engine_params>>

\* let target_client = data.target.to_client::<Self::Target>().await?;
TargetToClient ==
    /\ pc = "target_client"
    /\ \E r \in ToClientResults(TargetChain(impl.val), data.val.target) :
        /\ calls' = Append(calls, [op |-> "target.to_client", ret |-> r])
        /\ target_client' = IF IsOk(r) THEN Some(r.val) ELSE target_client
        /\ Try(r, "target_client")
    /\ UNCHANGED <<argv, data, impl, source_client, source_sign,
                   source_transactions_mortality, target_sign,
                   target_transactions_mortality, engine_params>>

\* let target_sign = data.target_sign.to_keypair::<Self::Target>()?;
TargetToKeypair ==
    /\ pc = "target_sign"
    /\ \E r \in ToKeypairResults(TargetChain(impl.val), data.val.target_sign) :
        /\ calls' = Append(calls, [op |-> "target_sign.to_keypair", ret |-> r])
        /\ target_sign' = IF IsOk(r) THEN Some(r.val) ELSE target_sign
        /\ Try(r, "target_sign")
    /\ UNCHANGED <<argv, data, impl, source_client, source_sign,
                   source_transactions_mortality, target_client,
                   target_transactions_mortality, engine_params>>

TargetTransactionsMortalityOrDefault ==
    /\ pc = "target_mortality"
    /\ \E r \in TransactionsMortalityResults(data.val.target_sign) :
        /\ calls' = Append(calls, [op |-> "target_sign.transactions_mortality", ret |-> r])
        /\ target_transactions_mortality' =
              IF IsOk(r) THEN Some(r.val)
              ELSE Some([params |-> data.val.target_sign, period |-> "None"])
        /\ pc' = NextStep("target_mortality")
        /\ UNCHANGED result
    /\ UNCHANGED <<argv, data, impl, source_client, source_sign,
                   source_transactions_mortality, target_client, target_sign,
                   engine_params>>

\* let target_transactions_mortality = data.target_sign.transactions_mortality()?;
TargetTransactionsMortality ==
    /\ pc = "target_mortality"
    /\ \E r \in TransactionsMortalityResults(data.val.target_sign) :
        /\ calls' = Append(calls, [op |-> "target_sign.transactions_mortality", ret |-> r])
        /\ target_transactions_mortality' =
              IF IsOk(r) THEN Some(r.val) ELSE target_transactions_mortality
        /\ Try(r, "target_mortality")
    /\ UNCHANGED <<argv, data, impl, source_client, source_sign,
                   source_transactions_mortality, target_client, target_sign,
                   engine_params>>

\* Convert the mode, build the strategy and the parameters, and call
\* substrate_relay_helper::messages_lane::run::<Self::MessagesLane>.
InvokeEngine ==
    /\ pc = "engine"
    /\ engine_params' =
          Some(MessagesRelayParams(data.val,
                                   source_client.val, source_sign.val,
                                   source_transactions_mortality.val,
                                   target_client.val, target_sign.val,
                                   target_transactions_mortality.val))
    /\ calls' = Append(calls, [op |-> "messages_lane::run", ret |-> Pending])
    /\ pc' = "await_engine"
    /\ UNCHANGED <<argv, data, impl, locals, result>>

\* .await of the engine, then map_err: the result of relay_messages and run.
EngineReturns ==
    /\ pc = "await_engine"
    /\ \E r \in EngineResults :
        /\ calls' = [calls EXCEPT ![Len(calls)].ret = r]
        /\ result' = MapErr(r)
    /\ pc' = "done"
    /\ UNCHANGED <<argv, data, impl, locals, engine_params>>

Next ==
    \/ Parse
    \/ Run
    \/ SourceToClient
    \/ SourceToKeypair
    \/ SourceTransactionsMortality
    \/ TargetToClient
    \/ TargetToKeypair
    \/ TargetTransactionsMortality
    \/ InvokeEngine
    \/ EngineReturns

Spec == Init /\ [][Next]_vars

-----------------------------------------------------------------------------
(* Vocabulary of the properties.                                           *)

SetupOps ==
    {"source.to_client", "source_sign.to_keypair",
     "source_sign.transactions_mortality",
     "target.to_client", "target_sign.to_keypair",
     "target_sign.transactions_mortality"}

EngineOp == "messages_lane::run"

EngineCalls == {i \in DOMAIN calls : calls[i].op = EngineOp}

FailedSetupCalls ==
    {i \in DOMAIN calls : calls[i].op \in SetupOps /\ IsErr(calls[i].ret)}

AllSetupSucceeded ==
    \A op \in SetupOps : \E i \in DOMAIN calls : calls[i].op = op /\ IsOk(calls[i].ret)

\* The value a setup call returned, for a call that succeeded.
Returned(op) == calls[CHOOSE i \in DOMAIN calls : calls[i].op = op].ret.val

Parsed == pc # "parse"

BridgeRecognized ==
    \E pv \in FullBridgeVARIANTS : eq_ignore_ascii_case(pv, argv.bridge)

ModeRecognized ==
    argv.relayer_mode.tag = "Some" =>
        \E pv \in RelayerModeVARIANTS : eq_ignore_ascii_case(pv, argv.relayer_mode.val)

\* The command line is valid apart from what --relayer-mode may be.
OtherwiseValid == IsOk(ParseBridge(argv.bridge)) /\ IsOk(ParseLane(argv.lane))

\* "rialto-to-millau", "00000000", "altruistic": the command line of the tests
TestBridgeToken ==
    <<114, 105, 97, 108, 116, 111, 45, 116, 111, 45, 109, 105, 108, 108, 97, 117>>
TestLaneToken == <<48, 48, 48, 48, 48, 48, 48, 48>>
AltruisticToken == <<97, 108, 116, 114, 117, 105, 115, 116, 105, 99>>

-----------------------------------------------------------------------------
(* The properties.                                                         *)

\* C1: once run has dispatched, the implementation chosen is one of the four
\* MessagesRelayer implementations and is the one of the selected bridge
\* pair; every parsed selector is dispatched (none is left unhandled), and
\* no two selectors share an implementation.
ThmC1 ==
    /\ (pc \notin {"parse", "run", "exit"}) => impl.tag = "Some"
    /\ impl.tag = "Some" =>
        /\ impl.val \in MessagesRelayerImpls
        /\ data.val.bridge = "MillauToRialto" <=> impl.val = "MillauToRialtoCliBridge"
        /\ data.val.bridge = "RialtoToMillau" <=> impl.val = "RialtoToMillauCliBridge"
        /\ data.val.bridge = "MillauToRialtoParachain"
              <=> impl.val = "MillauToRialtoParachainCliBridge"
        /\ data.val.bridge = "RialtoParachainToMillau"
              <=> impl.val = "RialtoParachainToMillauCliBridge"

WitC1 ==
    /\ pc = "done"
    /\ data.val.bridge = "MillauToRialtoParachain"
    /\ impl = Some("MillauToRialtoParachainCliBridge")

\* C2: the engine is invoked at most once; it is never invoked after a
\* failed setup step, only after all six have succeeded; and a finished run
\* has invoked it exactly when all six succeeded.
ThmC2 ==
    /\ Cardinality(EngineCalls) <= 1
    /\ EngineCalls # {} => AllSetupSucceeded /\ FailedSetupCalls = {}
    /\ FailedSetupCalls # {} => EngineCalls = {} /\ engine_params = None
    /\ pc = "done" => (EngineCalls # {} <=> AllSetupSucceeded)

WitC2 ==
    /\ pc = "done"
    /\ Cardinality(EngineCalls) = 1
    /\ AllSetupSucceeded
    /\ IsOk(result)

\* C3: a failed setup step is the last collaborator call of its run: the
\* run is over, its result is the failure carrying that step's error, and
\* every later local is still unset.
ThmC3 ==
    \A i \in FailedSetupCalls :
        /\ i = Len(calls)
        /\ pc = "done"
        /\ result = Err(calls[i].ret.err)
        /\ engine_params = None
        /\ calls[i].op = "source.to_client" =>
              /\ target_client = None
              /\ \A j \in DOMAIN calls : calls[j].op # "target.to_client"

WitC3 ==
    /\ FailedSetupCalls # {}
    /\ calls[Len(calls)].op = "source.to_client"
    /\ IsErr(result)

WitC3Later ==
    /\ FailedSetupCalls # {}
    /\ calls[Len(calls)].op = "target_sign.to_keypair"
    /\ IsErr(result)

\* C4: after the engine has returned, the run succeeds exactly when the
\* engine succeeded, and when the engine failed the run's failure has the
\* engine error's message text.
ThmC4 ==
    (pc = "done" /\ EngineCalls # {}) =>
        LET r == calls[Len(calls)].ret
        IN  /\ IsOk(result) <=> IsOk(r)
            /\ IsErr(r) => IsErr(result) /\ result.err.text = r.err.text

WitC4 ==
    /\ pc = "done"
    /\ EngineCalls # {}
    /\ IsErr(calls[Len(calls)].ret)
    /\ IsErr(result)
    /\ result.err.text = NumErrTexts

\* C5: a command line without --relayer-mode that is otherwise valid parses,
\* and its relayer mode is Rational.
ThmC5 ==
    (Parsed /\ argv.relayer_mode = None /\ OtherwiseValid) =>
        IsOk(data) /\ data.val.relayer_mode = "Rational"

WitC5 ==
    /\ Parsed
    /\ argv = [bridge |-> TestBridgeToken, lane |-> Some(TestLaneToken),
               relayer_mode |-> None]
    /\ IsOk(data)
    /\ data.val.relayer_mode = "Rational"

\* C6: for each relayer mode, its kebab-case token in any letter case, given
\* to --relayer-mode on an otherwise valid command line, parses to that mode.
CexC6 ==
    \A v \in RelayerMode :
        (/\ Parsed
         /\ OtherwiseValid
         /\ argv.relayer_mode.tag = "Some"
         /\ eq_ignore_ascii_case(argv.relayer_mode.val, KebabCase(RelayerModeIdent[v])))
        => IsOk(data) /\ data.val.relayer_mode = v

\* C7: a bridge name or relayer-mode token that is not one of the compiled
\* values gives a parse failure, and after a parse failure nothing has been
\* called: no connection, no key pair, no engine.
ThmC7 ==
    /\ (Parsed /\ ~(BridgeRecognized /\ ModeRecognized)) => IsErr(data)
    /\ IsErr(data) =>
        /\ pc = "exit"
        /\ calls = <<>>
        /\ impl = None
        /\ engine_params = None
        /\ source_client = None /\ target_client = None
        /\ source_sign = None /\ target_sign = None

WitC7 ==
    /\ pc = "exit"
    /\ argv.bridge = UnknownBridgeToken
    /\ IsErr(data)

WitC7Mode ==
    /\ pc = "exit"
    /\ BridgeRecognized
    /\ argv.relayer_mode = Some(UnknownModeToken)
    /\ IsErr(data)

\* C8: the strategy given to the engine carries the posture of the command's
\* relayer mode: Altruistic for Altruistic, Rational for Rational, and so
\* Altruistic for --relayer-mode=altruistic and Rational when it is omitted.
ThmC8 ==
    engine_params.tag = "Some" =>
        LET posture == engine_params.val.relay_strategy.relayer_mode
        IN  /\ engine_params.val.relay_strategy.strategy = "MixStrategy"
            /\ data.val.relayer_mode = "Altruistic" <=> posture = "loop::Altruistic"
            /\ data.val.relayer_mode = "Rational" <=> posture = "loop::Rational"
            /\ argv.relayer_mode = Some(AltruisticToken) => posture = "loop::Altruistic"
            /\ argv.relayer_mode = None => posture = "loop::Rational"

WitC8 ==
    /\ engine_params.tag = "Some"
    /\ argv.relayer_mode = Some(AltruisticToken)
    /\ engine_params.val.relay_strategy.relayer_mode = "loop::Altruistic"

\* C9: the parameters given to the engine are an image of the command: the
\* lane id is the command's (all zero when --lane is omitted), the source
\* client, signer and mortality are what the source-side calls returned for
\* the source-side parameters, the target ones likewise for the target
\* side, and both header relays are absent.
ThmC9 ==
    engine_params.tag = "Some" =>
        LET p == engine_params.val
            d == data.val
        IN  /\ p.lane_id = d.lane.HexLaneId
            /\ argv.lane = None => p.lane_id = [i \in 1..LaneWidth |-> 0]
            /\ p.source_client = Returned("source.to_client")
            /\ p.source_client = [chain |-> SourceChain(impl.val), params |-> d.source]
            /\ p.source_transaction_params.signer = Returned("source_sign.to_keypair")
            /\ p.source_transaction_params.signer.params = d.source_sign
            /\ p.source_transaction_params.mortality =
                  Returned("source_sign.transactions_mortality")
            /\ p.source_transaction_params.mortality.params = d.source_sign
            /\ p.target_client = Returned("target.to_client")
            /\ p.target_client = [chain |-> TargetChain(impl.val), params |-> d.target]
            /\ p.target_transaction_params.signer = Returned("target_sign.to_keypair")
            /\ p.target_transaction_params.signer.params = d.target_sign
            /\ p.target_transaction_params.mortality =
                  Returned("target_sign.transactions_mortality")
            /\ p.target_transaction_params.mortality.params = d.target_sign
            /\ p.source_to_target_headers_relay = None
            /\ p.target_to_source_headers_relay = None

WitC9 ==
    /\ engine_params.tag = "Some"
    /\ argv.lane = None
    /\ engine_params.val.lane_id = <<0, 0, 0, 0>>
    /\ engine_params.val.source_transaction_params.mortality.period = "Some"
    /\ engine_params.val.target_transaction_params.mortality.period = "None"

WitC9Lane ==
    /\ engine_params.tag = "Some"
    /\ argv.lane.tag = "Some"
    /\ engine_params.val.lane_id = <<0, 0, 0, 42>>

\* C10: the collaborator calls of a run are, in order, a prefix of: source
\* connection, source key pair, source mortality, target connection, target
\* key pair, target mortality, engine.
FixedSequence ==
    <<"source.to_client", "source_sign.to_keypair",
      "source_sign.transactions_mortality",
      "target.to_client", "target_sign.to_keypair",
      "target_sign.transactions_mortality", "messages_lane::run">>

ThmC10 ==
    /\ Len(calls) <= Len(FixedSequence)
    /\ \A i \in DOMAIN calls : calls[i].op = FixedSequence[i]

WitC10 ==
    /\ pc = "done"
    /\ Len(calls) = Len(FixedSequence)

====
